---- MODULE Spec2Model ----
(***************************************************************************)
(* Taxi price prediction: the FastAPI prediction service                   *)
(* (src/src/taxipred/backend/api.py) and the Streamlit client              *)
(* (src/src/taxipred/frontend/app.py).                                     *)
(*                                                                         *)
(* Numbers are fixed-point integers in tenths: 15.5 km is 155, 0.3 is 3,   *)
(* the first float below zero that the inputs use is -1.  A model output   *)
(* is in thousandths and a rounded price in hundredths.                    *)
(***************************************************************************)
EXTENDS Integers, Sequences, FiniteSets, TLC

VARIABLES
    model,           \* api.py:31  the fitted regression model
    scaler,          \* api.py:32  the fitted numerical scaler
    label_encoders,  \* api.py:33  field name -> fitted label encoder
    feature_info,    \* api.py:34  categorical / numerical field-name lists
    loaded,          \* history: the four artifacts as joblib.load returned them
    req,             \* the JSON body of the request served last
    resp,            \* the HTTP response to it
    steps,           \* history: the artifact calls made while serving it
    row,             \* history: the DataFrame model.predict was given for it
    pinned,          \* history: one earlier request and the response it got
    svc,             \* client side: what a POST to API_URL meets
    pc,              \* client script: "idle" or blocked in requests.post
    trip_data,       \* app.py:128 / app.py:292  the JSON the blocked run posted
    tab1,            \* what the Basic Prediction tab shows
    route_result,    \* app.py:244  st.session_state.route_result
    click            \* history: the button click being served or served last

serverVars == <<model, scaler, label_encoders, feature_info, loaded,
                req, resp, steps, row, pinned>>
clientVars == <<svc, pc, trip_data, tab1, route_result, click>>
vars == <<model, scaler, label_encoders, feature_info, loaded,
          req, resp, steps, row, pinned,
          svc, pc, trip_data, tab1, route_result, click>>

(***************************************************************************)
(* Values: a JSON value or a DataFrame cell is a string or a number.       *)
(***************************************************************************)
Str(s) == [t |-> "str", s |-> s, n |-> 0]
Num(n) == [t |-> "num", s |-> "", n |-> n]

\* class TripInput: the fields in declaration order.
Fields ==
    << "Trip_Distance_km", "Time_of_Day", "Day_of_Week", "Passenger_Count",
       "Traffic_Conditions", "Weather", "Base_Fare", "Per_Km_Rate",
       "Per_Minute_Rate", "Trip_Duration_Minutes" >>

FieldSet == {Fields[i] : i \in 1..Len(Fields)}

\* The fields declared str; the others are declared float.
StrFields == {"Time_of_Day", "Day_of_Week", "Traffic_Conditions", "Weather"}

\* Field(..., gt=0): every float field.
FieldGt(f) == 0

\* Field(..., le=10) on Passenger_Count only; 10 is 100 tenths.
HasLe(f) == f = "Passenger_Count"
FieldLe(f) == 10 * 10

\* A JSON object: a sequence of [k, v] members in the order they were sent.
JsonGet(body, key) ==
    LET i == CHOOSE j \in 1..Len(body) : body[j].k = key
    IN  body[i].v

JsonKeys(body) == {body[i].k : i \in 1..Len(body)}

(***************************************************************************)
(* Request validation: FastAPI validates the body against TripInput        *)
(* before it calls predict_price.                                          *)
(***************************************************************************)
\* FieldError with ge=0 written for gt=0: zero is accepted.
FieldErrorGe(f, body) ==
    IF f \notin JsonKeys(body) THEN "value_error.missing"
    ELSE LET v == JsonGet(body, f)
         IN  IF f \in StrFields
             THEN (IF v.t = "str" THEN "" ELSE "type_error.str")
             ELSE IF v.t # "num" THEN "type_error.float"
             ELSE IF ~(v.n >= FieldGt(f)) THEN "value_error.number.not_ge"
             ELSE IF HasLe(f) /\ ~(v.n <= FieldLe(f))
                  THEN "value_error.number.not_le"
             ELSE ""

\* One field of TripInput against its Field(...) constraints: the pydantic
\* error type, or "" when the value is accepted.
FieldError(f, body) ==
    IF f \notin JsonKeys(body) THEN "value_error.missing"
    ELSE LET v == JsonGet(body, f)
         IN  IF f \in StrFields
             THEN (IF v.t = "str" THEN "" ELSE "type_error.str")
             ELSE IF v.t # "num" THEN "type_error.float"
             ELSE IF ~(v.n > FieldGt(f)) THEN "value_error.number.not_gt"
             ELSE IF HasLe(f) /\ ~(v.n <= FieldLe(f))
                  THEN "value_error.number.not_le"
             ELSE ""

\* The validation errors of a body, in field order (empty: the body is valid).
TripInputErrors(body) ==
    LET bad == SelectSeq(Fields, LAMBDA f : FieldError(f, body) # "")
    IN  [i \in 1..Len(bad) |->
            [loc |-> <<"body", bad[i]>>, type |-> FieldError(bad[i], body)]]

\* TripInput with the handler taking the raw JSON dict (trip: dict): the
\* members stay in the order they were sent.
TripInputAsSent(body) == body

\* The validated TripInput object: pydantic reads each declared field from
\* the body by name, so the object holds the fields in declaration order,
\* whatever order the JSON had.
TripInput(body) ==
    [i \in 1..Len(Fields) |-> [k |-> Fields[i], v |-> JsonGet(body, Fields[i])]]

\* trip.dict(): a dict of the object's fields, in the object's order.
TripDict(trip) == [i \in 1..Len(trip) |-> [k |-> trip[i].k, v |-> trip[i].v]]

\* pd.DataFrame([input_data]): one row, the columns in the dict's key order.
DataFrame(input_data) ==
    [columns |-> [i \in 1..Len(input_data) |-> input_data[i].k],
     val     |-> [c \in JsonKeys(input_data) |-> JsonGet(input_data, c)]]

Columns(df) == {df.columns[i] : i \in 1..Len(df.columns)}

(***************************************************************************)
(* The artifacts' capabilities (scikit-learn objects loaded with joblib).  *)
(***************************************************************************)
IndexOf(seq, x) == CHOOSE i \in 1..Len(seq) : seq[i] = x
Range(seq) == {seq[i] : i \in 1..Len(seq)}

\* LabelEncoderTransform with an unfitted label encoded as 0 instead of
\* raising.
LabelEncoderTransformDefault(enc, cell) ==
    IF cell.t = "str" /\ cell.s \in Range(enc.classes_)
    THEN [raised |-> FALSE, msg |-> "",
          code |-> IndexOf(enc.classes_, cell.s) - 1, enc |-> enc]
    ELSE [raised |-> FALSE, msg |-> "", code |-> 0, enc |-> enc]

\* LabelEncoderTransform with an encoder that learns: an unfitted label is
\* added in front of classes_ and encoded.
LabelEncoderTransformLearning(enc, cell) ==
    IF cell.t = "str" /\ cell.s \in Range(enc.classes_)
    THEN [raised |-> FALSE, msg |-> "",
          code |-> IndexOf(enc.classes_, cell.s) - 1, enc |-> enc]
    ELSE [raised |-> FALSE, msg |-> "", code |-> 0,
          enc |-> [enc EXCEPT !.classes_ = <<cell.s>> \o enc.classes_]]

\* LabelEncoderTransform with fit_transform called for transform: the
\* encoder is refitted on the request's one label.
LabelEncoderFitTransform(enc, cell) ==
    [raised |-> FALSE, msg |-> "", code |-> 0,
     enc |-> [enc EXCEPT !.classes_ = <<cell.s>>]]

\* LabelEncoder.transform on a one-cell column: the 0-based index of the
\* label in classes_, or ValueError for a label that was not fitted.  The
\* encoder is returned as the call leaves it: transform does not refit.
LabelEncoderTransform(enc, cell) ==
    IF cell.t = "str" /\ cell.s \in Range(enc.classes_)
    THEN [raised |-> FALSE, msg |-> "",
          code |-> IndexOf(enc.classes_, cell.s) - 1, enc |-> enc]
    ELSE [raised |-> TRUE,
          msg |-> "y contains previously unseen labels: '" \o cell.s \o "'",
          code |-> 0, enc |-> enc]

\* StandardScaler.transform on the selected columns X (a sequence of cells):
\* column i becomes (x - mean_[i]) / scale_[i], in tenths.
ScalerTransform(sc, X) ==
    IF Len(X) # sc.n_features_in_
    THEN [raised |-> TRUE,
          msg |-> "X has " \o ToString(Len(X))
                  \o " features, but StandardScaler is expecting "
                  \o ToString(sc.n_features_in_) \o " features as input.",
          X |-> <<>>]
    ELSE IF \E i \in 1..Len(X) : X[i].t = "str"
    THEN [raised |-> TRUE,
          msg |-> "could not convert string to float: '"
                  \o X[CHOOSE i \in 1..Len(X) : X[i].t = "str"].s \o "'",
          X |-> <<>>]
    ELSE [raised |-> FALSE, msg |-> "",
          X |-> [i \in 1..Len(X) |->
                    Num(((X[i].n - sc.mean_[i]) * 10) \div sc.scale_[i])]]

RECURSIVE Dot(_, _, _)
Dot(coef, X, i) ==
    IF i > Len(X) THEN 0 ELSE coef[i] * X[i].n + Dot(coef, X, i + 1)

\* model.predict(df)[0]: the model reads the row by column position.
ModelPredict(m, X) ==
    IF Len(X) # m.n_features_in_
    THEN [raised |-> TRUE,
          msg |-> "X has " \o ToString(Len(X))
                  \o " features, but the model is expecting "
                  \o ToString(m.n_features_in_) \o " features as input.",
          y |-> 0]
    ELSE IF \E i \in 1..Len(X) : X[i].t = "str"
    THEN [raised |-> TRUE,
          msg |-> "could not convert string to float: '"
                  \o X[CHOOSE i \in 1..Len(X) : X[i].t = "str"].s \o "'",
          y |-> 0]
    ELSE [raised |-> FALSE, msg |-> "", y |-> m.intercept_ + Dot(m.coef_, X, 1)]

\* round(float(prediction), 2): thousandths to hundredths, ties to even.
Round2(y) ==
    LET q == y \div 10
        r == y % 10
    IN  IF r < 5 THEN q
        ELSE IF r > 5 THEN q + 1
        ELSE IF q % 2 = 0 THEN q ELSE q + 1

(***************************************************************************)
(* HTTP responses of the service.  keys is the set of members the JSON     *)
(* body carries; the members not in keys hold a filler.                    *)
(***************************************************************************)
\* PredictionResponse(predicted_price=...): currency defaults to "SEK".
PredictionResponse(price) ==
    [status |-> 200, keys |-> {"predicted_price", "currency"},
     predicted_price |-> price, currency |-> "SEK", detail |-> "", errors |-> <<>>]

\* HTTPException(status_code=500, detail=f"Prediction error: {str(e)}").
HTTPException500(msg) ==
    [status |-> 500, keys |-> {"detail"},
     predicted_price |-> 0, currency |-> "",
     detail |-> "Prediction error: " \o msg, errors |-> <<>>]

\* FastAPI's answer to a body that fails validation: the list of errors.
RequestValidationError(errors) ==
    [status |-> 422, keys |-> {"detail"},
     predicted_price |-> 0, currency |-> "", detail |-> "", errors |-> errors]

(***************************************************************************)
(* predict_price: the body of the try block, step by step.                 *)
(***************************************************************************)
\* for col in feature_info['categorical_features']: if col in df.columns:
\*     df[col] = label_encoders[col].transform(df[col])
\* from the i-th name on.  The first transform that raises ends the loop.
RECURSIVE EncodeLoop(_, _, _, _, _)
EncodeLoop(i, cats, df, encs, done) ==
    IF i > Len(cats)
    THEN [raised |-> FALSE, msg |-> "", df |-> df, encs |-> encs, steps |-> done]
    ELSE LET col == cats[i]
         IN  IF col \notin Columns(df)
             THEN EncodeLoop(i + 1, cats, df, encs, done)
             ELSE LET r == LabelEncoderTransform(encs[col], df.val[col])
                      encs2 == [encs EXCEPT ![col] = r.enc]
                      done2 == Append(done, "encode:" \o col)
                  IN  IF r.raised
                      THEN [raised |-> TRUE, msg |-> r.msg, df |-> df,
                            encs |-> encs2, steps |-> done2]
                      ELSE EncodeLoop(i + 1, cats,
                               [df EXCEPT !.val[col] = Num(r.code)],
                               encs2, done2)

\* df[cols]: the cells of the named columns, in the order of the names.
Select(df, cols) == [i \in 1..Len(cols) |-> df.val[cols[i]]]

\* df[cols] = X: column cols[i] takes X[i]; the column order stays.
Assign(df, cols, X) ==
    [df EXCEPT !.val = [c \in DOMAIN df.val |->
        IF c \in Range(cols) THEN X[IndexOf(cols, c)] ELSE df.val[c]]]

\* The row as the model reads it: the cells in the DataFrame's column order.
FeatureRow(df) == [i \in 1..Len(df.columns) |-> df.val[df.columns[i]]]

NoRow == [columns |-> <<>>, cells |-> <<>>]

\* predict_price with the scaler's exception swallowed: the row goes to the
\* model unscaled.
predict_price_partial(mdl, sc, encs, finfo, trip) ==
    LET input_data == TripDict(trip)
        df  == DataFrame(input_data)
        e   == EncodeLoop(1, finfo.categorical_features, df, encs, <<>>)
        num == finfo.numerical_features
        s   == ScalerTransform(sc, Select(e.df, num))
        df2 == IF s.raised THEN e.df ELSE Assign(e.df, num, s.X)
        p   == ModelPredict(mdl, FeatureRow(df2))
    IN  IF e.raised
        THEN [resp |-> HTTPException500(e.msg), steps |-> e.steps,
              encs |-> e.encs, row |-> NoRow]
        ELSE IF p.raised
        THEN [resp |-> HTTPException500(p.msg),
              steps |-> e.steps \o <<"scale", "predict">>,
              encs |-> e.encs,
              row |-> [columns |-> df2.columns, cells |-> FeatureRow(df2)]]
        ELSE [resp |-> PredictionResponse(Round2(p.y)),
              steps |-> e.steps \o <<"scale", "predict", "round">>,
              encs |-> e.encs,
              row |-> [columns |-> df2.columns, cells |-> FeatureRow(df2)]]

\* The handler: resp is the response, steps the artifact calls made, encs the
\* encoders as the calls left them, row the DataFrame given to model.predict.
predict_price(mdl, sc, encs, finfo, trip) ==
    LET input_data == TripDict(trip)
        df  == DataFrame(input_data)
        e   == EncodeLoop(1, finfo.categorical_features, df, encs, <<>>)
        num == finfo.numerical_features
        s   == ScalerTransform(sc, Select(e.df, num))
        df2 == Assign(e.df, num, s.X)
        p   == ModelPredict(mdl, FeatureRow(df2))
    IN  IF e.raised
        THEN [resp |-> HTTPException500(e.msg), steps |-> e.steps,
              encs |-> e.encs, row |-> NoRow]
        ELSE IF s.raised
        THEN [resp |-> HTTPException500(s.msg), steps |-> Append(e.steps, "scale"),
              encs |-> e.encs, row |-> NoRow]
        ELSE IF p.raised
        THEN [resp |-> HTTPException500(p.msg),
              steps |-> e.steps \o <<"scale", "predict">>,
              encs |-> e.encs,
              row |-> [columns |-> df2.columns, cells |-> FeatureRow(df2)]]
        ELSE [resp |-> PredictionResponse(Round2(p.y)),
              steps |-> e.steps \o <<"scale", "predict", "round">>,
              encs |-> e.encs,
              row |-> [columns |-> df2.columns, cells |-> FeatureRow(df2)]]

\* POST /predict as the application serves it: validation, then the handler.
PostPredict(mdl, sc, encs, finfo, body) ==
    LET errors == TripInputErrors(body)
    IN  IF errors # <<>>
        THEN [resp |-> RequestValidationError(errors), steps |-> <<>>,
              encs |-> encs, row |-> NoRow]
        ELSE predict_price(mdl, sc, encs, finfo, TripInput(body))

\* read_root: GET /.
read_root ==
    [status |-> 200, keys |-> {"message", "version", "endpoints"},
     predicted_price |-> 0, currency |-> "", detail |-> "", errors |-> <<>>]

NoResponse ==
    [status |-> 0, keys |-> {}, predicted_price |-> 0, currency |-> "",
     detail |-> "", errors |-> <<>>]

NoRequest == [method |-> "", path |-> "", body |-> <<>>]
PostRequest(body) == [method |-> "POST", path |-> "/predict", body |-> body]
GetRoot == [method |-> "GET", path |-> "/", body |-> <<>>]

(***************************************************************************)
(* The artifact files.  The encoders' vocabularies are the labels the      *)
(* TripInput field descriptions list, sorted as LabelEncoder.fit sorts     *)
(* them; the scaler and the model are fitted objects of the right shape,   *)
(* or objects fitted on another feature set (a models/ directory whose     *)
(* files do not belong together).                                          *)
(***************************************************************************)
FittedEncoders ==
    [f \in StrFields |->
        [classes_ |->
            CASE f = "Time_of_Day"        -> <<"Afternoon", "Evening", "Morning">>
              [] f = "Day_of_Week"        -> <<"Weekday", "Weekend">>
              [] f = "Traffic_Conditions" -> <<"High", "Low", "Medium">>
              [] f = "Weather"            -> <<"Clear", "Fog", "Rain">>]]

FittedFeatureInfo ==
    [categorical_features |->
        <<"Time_of_Day", "Day_of_Week", "Traffic_Conditions", "Weather">>,
     numerical_features |->
        <<"Trip_Distance_km", "Passenger_Count", "Base_Fare", "Per_Km_Rate",
          "Per_Minute_Rate", "Trip_Duration_Minutes">>]

FittedScaler ==
    [n_features_in_ |-> 6,
     mean_  |-> <<270, 25, 35, 12, 3, 620>>,
     scale_ |-> <<200, 11, 9, 4, 1, 320>>]

MismatchedScaler ==
    [n_features_in_ |-> 5,
     mean_  |-> <<270, 25, 35, 12, 3>>,
     scale_ |-> <<200, 11, 9, 4, 1>>]

FittedModel ==
    [n_features_in_ |-> 10,
     coef_ |-> <<120, 7, -5, 3, -11, 13, 40, 35, 30, 90>>,
     intercept_ |-> 56789]

MismatchedModel ==
    [n_features_in_ |-> 9,
     coef_ |-> <<120, 7, -5, 3, -11, 13, 40, 35, 30>>,
     intercept_ |-> 56789]

\* What joblib.load can return for (model, scaler).
ArtifactSets ==
    { <<FittedModel, FittedScaler>>,
      <<FittedModel, MismatchedScaler>>,
      <<MismatchedModel, FittedScaler>> }

(***************************************************************************)
(* The requests the service is sent.                                       *)
(***************************************************************************)
\* The example of TripInput.Config.schema_extra.
Example ==
    [f \in FieldSet |->
        CASE f = "Trip_Distance_km"      -> Num(155)
          [] f = "Time_of_Day"           -> Str("Morning")
          [] f = "Day_of_Week"           -> Str("Weekday")
          [] f = "Passenger_Count"       -> Num(20)
          [] f = "Traffic_Conditions"    -> Str("Medium")
          [] f = "Weather"               -> Str("Clear")
          [] f = "Base_Fare"             -> Num(35)
          [] f = "Per_Km_Rate"           -> Num(15)
          [] f = "Per_Minute_Rate"       -> Num(3)
          [] f = "Trip_Duration_Minutes" -> Num(250)]

\* How far, in tenths, the numerical values sent lie from a constraint's
\* boundary (0, and 10 passengers).
MaxOff == 1

NearBoundary == (0 - MaxOff)..MaxOff

\* Other values a field is sent with: at and on both sides of each
\* constraint's boundary, a fitted label and an unfitted one.
Alternatives ==
    {<<f, Num(x)>> : f \in FieldSet \ StrFields, x \in NearBoundary}
    \cup {<<"Passenger_Count", Num(FieldLe("Passenger_Count") + x)>> :
            x \in NearBoundary}
    \cup
    { <<"Time_of_Day", Str("Evening")>>, <<"Time_of_Day", Str("Midnight")>>,
      <<"Day_of_Week", Str("Weekend")>>, <<"Day_of_Week", Str("Holiday")>>,
      <<"Traffic_Conditions", Str("High")>>,
      <<"Traffic_Conditions", Str("Gridlock")>>,
      <<"Weather", Str("Rain")>>, <<"Weather", Str("Snow")>> }

\* Two fields off the example at once.
PairedAlternatives ==
    { << <<"Trip_Distance_km", Num(0)>>, <<"Time_of_Day", Str("Midnight")>> >>,
      << <<"Day_of_Week", Str("Holiday")>>, <<"Weather", Str("Snow")>> >>,
      << <<"Time_of_Day", Str("Evening")>>, <<"Weather", Str("Snow")>> >>,
      << <<"Passenger_Count", Num(0)>>, <<"Base_Fare", Num(0)>> >> }

Trips ==
    {Example}
    \cup {[Example EXCEPT ![a[1]] = a[2]] : a \in Alternatives}
    \cup {[Example EXCEPT ![p[1][1]] = p[1][2], ![p[2][1]] = p[2][2]] :
            p \in PairedAlternatives}

\* The orders the members of the JSON body are sent in: the declared order,
\* the categorical fields first, the numerical fields first, reversed.
KeyOrders ==
    { Fields,
      <<"Time_of_Day", "Day_of_Week", "Traffic_Conditions", "Weather",
        "Trip_Distance_km", "Passenger_Count", "Base_Fare", "Per_Km_Rate",
        "Per_Minute_Rate", "Trip_Duration_Minutes">>,
      <<"Trip_Duration_Minutes", "Per_Minute_Rate", "Per_Km_Rate", "Base_Fare",
        "Weather", "Traffic_Conditions", "Passenger_Count", "Day_of_Week",
        "Time_of_Day", "Trip_Distance_km">> }

JsonObject(order, trip) == [i \in 1..Len(order) |-> [k |-> order[i], v |-> trip[order[i]]]]

Bodies == {JsonObject(o, t) : o \in KeyOrders, t \in Trips}

\* The requests whose responses are followed across the requests served
\* after them: one per kind of outcome, in more than one key order.
RepeatedTrips ==
    { Example,
      [Example EXCEPT !["Time_of_Day"] = Str("Evening")],
      [Example EXCEPT !["Time_of_Day"] = Str("Midnight")],
      [Example EXCEPT !["Trip_Distance_km"] = Num(0)] }

RepeatedBodies == {JsonObject(o, t) : o \in KeyOrders, t \in RepeatedTrips}

(***************************************************************************)
(* The service: state after the module-level loads, and its endpoints.     *)
(***************************************************************************)
NoPin == [req |-> NoRequest, resp |-> NoResponse, others |-> FALSE]

NoDisplay == [kind |-> "none", text |-> ""]
NoRouteResult ==
    [set |-> FALSE, success |-> FALSE, from_location |-> "", to_location |-> "",
     distance_km |-> 0, predicted_price |-> 0, currency |-> "",
     route_time |-> "", route_day |-> "", route_traffic |-> "",
     route_weather |-> "", route_duration |-> 0, error |-> ""]

ServerInit ==
    /\ \E a \in ArtifactSets : model = a[1] /\ scaler = a[2]
    /\ label_encoders = FittedEncoders
    /\ feature_info = FittedFeatureInfo
    /\ loaded = [model |-> model, scaler |-> scaler,
                 label_encoders |-> label_encoders, feature_info |-> feature_info]
    /\ req = NoRequest
    /\ resp = NoResponse
    /\ steps = <<>>
    /\ row = NoRow
    /\ pinned = NoPin

\* The service serves one POST /predict.  The artifacts are the module's
\* globals: the handler assigns none of them, and the encoders are left as
\* its transform calls leave them.
Serve(body) ==
    \E o \in {PostPredict(model, scaler, label_encoders, feature_info, body)} :
        /\ req' = PostRequest(body)
        /\ resp' = o.resp
        /\ steps' = o.steps
        /\ row' = o.row
        /\ label_encoders' = o.encs
        /\ UNCHANGED <<model, scaler, feature_info, loaded>>

\* A POST /predict from any caller.  (pinned.others: a request other than
\* the pinned one has been served since.)
ServePredict ==
    \E body \in Bodies :
        /\ Serve(body)
        /\ pinned' = IF pinned # NoPin /\ PostRequest(body) # pinned.req
                     THEN [pinned EXCEPT !.others = TRUE] ELSE pinned
        /\ UNCHANGED clientVars

\* A POST /predict whose request and response are kept in pinned, for
\* comparison with the later responses to the same request.
ServePinned ==
    \E body \in RepeatedBodies :
        /\ pinned = NoPin
        /\ Serve(body)
        /\ pinned' = [req |-> req', resp |-> resp', others |-> FALSE]
        /\ UNCHANGED clientVars

\* A GET / from any caller.
ServeRoot ==
    /\ req' = GetRoot
    /\ resp' = read_root
    /\ steps' = <<>>
    /\ row' = NoRow
    /\ UNCHANGED <<model, scaler, label_encoders, feature_info, loaded, pinned>>
    /\ UNCHANGED clientVars

(***************************************************************************)
(* The client (app.py).  One Streamlit script run serves one button click; *)
(* the run blocks in requests.post until the call returns or raises.       *)
(* The cross mark that opens the route tab's error line is written [x].    *)
(***************************************************************************)
\* What a POST to API_URL meets: the service answering, nothing listening
\* (connection refused), a peer that accepts and never answers, or an
\* endpoint that keeps redirecting (requests raises TooManyRedirects).
SvcStates == {"up", "down", "silent", "redirect_loop"}

ConnectionErrorText == "HTTPConnectionPool(host='localhost', port=8000): Max retries exceeded with url: /predict (Connection refused)"
TooManyRedirectsText == "Exceeded 30 redirects."
GeocoderErrorText == "Service timed out"

\* float(n) of a widget value held as an int.
Float(n) == n * 10

\* f"{x:.2f}" of a price held in hundredths.
Fmt2(p) ==
    LET a == IF p < 0 THEN -p ELSE p
    IN  (IF p < 0 THEN "-" ELSE "")
        \o ToString(a \div 100) \o "." \o ToString((a % 100) \div 10)
        \o ToString(a % 10)

\* The Basic Prediction form: values its widgets allow (number_input
\* min_value/max_value, selectbox options).  passenger_count and
\* trip_duration are int widgets.
BasicForms ==
    LET d == [trip_distance |-> 155, time_of_day |-> "Morning",
              day_of_week |-> "Weekday", passenger_count |-> 2,
              traffic_conditions |-> "Medium", weather |-> "Clear",
              base_fare |-> 35, per_km_rate |-> 15, per_minute_rate |-> 3,
              trip_duration |-> 25]
    IN  { d,
          [d EXCEPT !.trip_distance = 1, !.passenger_count = 10],
          [d EXCEPT !.time_of_day = "Evening", !.weather = "Fog"] }

\* trip_data of the basic_predict handler.
BasicTripData(w) ==
    << [k |-> "Trip_Distance_km",      v |-> Num(w.trip_distance)],
       [k |-> "Time_of_Day",           v |-> Str(w.time_of_day)],
       [k |-> "Day_of_Week",           v |-> Str(w.day_of_week)],
       [k |-> "Passenger_Count",       v |-> Num(Float(w.passenger_count))],
       [k |-> "Traffic_Conditions",    v |-> Str(w.traffic_conditions)],
       [k |-> "Weather",               v |-> Str(w.weather)],
       [k |-> "Base_Fare",             v |-> Num(w.base_fare)],
       [k |-> "Per_Km_Rate",           v |-> Num(w.per_km_rate)],
       [k |-> "Per_Minute_Rate",       v |-> Num(w.per_minute_rate)],
       [k |-> "Trip_Duration_Minutes", v |-> Num(Float(w.trip_duration))] >>

\* The Route-based form.  The pricing number_inputs have no min_value.
RouteForms ==
    LET d == [route_time |-> "Morning", route_day |-> "Weekday",
              route_passengers |-> 2, route_traffic |-> "Medium",
              route_weather |-> "Clear", route_base |-> 35,
              route_km_rate |-> 15, route_min_rate |-> 3,
              route_duration |-> 180]
    IN  {d, [d EXCEPT !.route_base = 0]}

\* trip_data of the route_predict handler.
RouteTripData(w, distance_km) ==
    << [k |-> "Trip_Distance_km",      v |-> Num(distance_km)],
       [k |-> "Time_of_Day",           v |-> Str(w.route_time)],
       [k |-> "Day_of_Week",           v |-> Str(w.route_day)],
       [k |-> "Passenger_Count",       v |-> Num(Float(w.route_passengers))],
       [k |-> "Traffic_Conditions",    v |-> Str(w.route_traffic)],
       [k |-> "Weather",               v |-> Str(w.route_weather)],
       [k |-> "Base_Fare",             v |-> Num(w.route_base)],
       [k |-> "Per_Km_Rate",           v |-> Num(w.route_km_rate)],
       [k |-> "Per_Minute_Rate",       v |-> Num(w.route_min_rate)],
       [k |-> "Trip_Duration_Minutes", v |-> Num(Float(w.route_duration))] >>

\* The place names typed into the two text inputs.
Places == {"Stockholm", "Goteborg", "Atlantis"}

\* geolocator.geocode(name): a location, or None for a name it cannot
\* resolve.  Coordinates are in tenths of a degree.
Geocode(name) ==
    CASE name = "Stockholm" -> [found |-> TRUE, latitude |-> 593, longitude |-> 181]
      [] name = "Goteborg"  -> [found |-> TRUE, latitude |-> 577, longitude |-> 120]
      [] OTHER              -> [found |-> FALSE, latitude |-> 0, longitude |-> 0]

\* geodesic(from_coords, to_coords).kilometers, in tenths of a kilometre.
Geodesic(from_coords, to_coords) ==
    IF from_coords = to_coords THEN 0 ELSE 3976

\* The price line both tabs render: f"# {predicted_price:.2f} {currency}".
PriceText(price, currency) == "# " \o Fmt2(price) \o " " \o currency

\* BasicShow without its else branch: another status shows nothing.
BasicShowSilent(r) ==
    IF r.status = 200
    THEN IF "predicted_price" \notin r.keys
         THEN [kind |-> "error", text |-> "Error: 'predicted_price'"]
         ELSE IF "currency" \notin r.keys
         THEN [kind |-> "error", text |-> "Error: 'currency'"]
         ELSE [kind |-> "price", text |-> PriceText(r.predicted_price, r.currency)]
    ELSE NoDisplay

\* basic_predict after requests.post returned: the 200 branch shows the
\* price (a body without the members raises KeyError, caught by the generic
\* except), any other status shows the status code.
BasicShow(r) ==
    IF r.status = 200
    THEN IF "predicted_price" \notin r.keys
         THEN [kind |-> "error", text |-> "Error: 'predicted_price'"]
         ELSE IF "currency" \notin r.keys
         THEN [kind |-> "error", text |-> "Error: 'currency'"]
         ELSE [kind |-> "price", text |-> PriceText(r.predicted_price, r.currency)]
    ELSE [kind |-> "error", text |-> "Error: " \o ToString(r.status)]

\* except requests.exceptions.ConnectionError
BasicConnectionError == [kind |-> "error", text |-> "Cannot connect to backend API"]

\* except Exception as e
BasicException(msg) == [kind |-> "error", text |-> "Error: " \o msg]

\* BothFound written "if from_loc:".
BothFoundFromOnly(from_loc, to_loc) == from_loc.found

\* if from_loc and to_loc
BothFound(from_loc, to_loc) == from_loc.found /\ to_loc.found

\* ' | '.join(error_msg)
RECURSIVE Join(_, _)
Join(sep, msgs) ==
    IF msgs = <<>> THEN ""
    ELSE IF Len(msgs) = 1 THEN msgs[1]
    ELSE msgs[1] \o sep \o Join(sep, Tail(msgs))

RouteFailure(error) == [NoRouteResult EXCEPT !.set = TRUE, !.error = error]

\* The else branch of "if from_loc and to_loc".
RouteNotFound(from_loc, to_loc, from_location, to_location) ==
    LET m1 == IF ~from_loc.found
              THEN <<"Could not find location: " \o from_location>> ELSE <<>>
        m2 == IF ~to_loc.found
              THEN <<"Could not find location: " \o to_location>> ELSE <<>>
    IN  RouteFailure(Join(" | ", m1 \o m2))

\* route_predict after requests.post returned; c holds the handler's locals.
RouteStore(r, c) ==
    IF r.status = 200
    THEN IF "predicted_price" \notin r.keys THEN RouteFailure("'predicted_price'")
         ELSE IF "currency" \notin r.keys THEN RouteFailure("'currency'")
         ELSE [set |-> TRUE, success |-> TRUE,
               from_location |-> c.from_location, to_location |-> c.to_location,
               distance_km |-> c.distance_km,
               predicted_price |-> r.predicted_price, currency |-> r.currency,
               route_time |-> c.w.route_time, route_day |-> c.w.route_day,
               route_traffic |-> c.w.route_traffic,
               route_weather |-> c.w.route_weather,
               route_duration |-> c.w.route_duration, error |-> ""]
    ELSE RouteFailure("Prediction error: " \o ToString(r.status))

\* RouteException that only reports (st.error) and leaves
\* st.session_state.route_result as it was.
RouteExceptionKeep(rr, msg) == rr

\* except Exception as e, around the whole route_predict handler: the
\* branch assigns st.session_state.route_result (rr is what it held).
RouteException(rr, msg) == RouteFailure(msg)

\* "Display results from session state": what the route tab shows.
RouteDisplay(rr) ==
    IF ~rr.set THEN NoDisplay
    ELSE IF rr.success
    THEN [kind |-> "price", text |-> PriceText(rr.predicted_price, rr.currency)]
    ELSE [kind |-> "error", text |-> "[x] " \o rr.error]

\* The click being served: the handler's locals, and what happened to it.
\* outcome is "pending" while the run is blocked in requests.post, then
\* "ok" (a 200 came back), "http_error" (another status came back),
\* "conn_error", "exception" or "geocode_notfound".  from_found / to_found
\* are what the two geocode calls did, posts the POSTs the click has sent,
\* status and detail the response that came back, stale whether
\* route_result held a price when the click came.
NoClick ==
    [mode |-> "", outcome |-> "", from_found |-> "", to_found |-> "",
     posts |-> 0, status |-> 0, detail |-> "", stale |-> FALSE,
     from_location |-> "", to_location |-> "", distance_km |-> 0,
     w |-> CHOOSE d \in RouteForms : d.route_base = 35]

ClientInit ==
    /\ svc = "up"
    /\ pc = "idle"
    /\ trip_data = <<>>
    /\ tab1 = NoDisplay
    /\ route_result = NoRouteResult
    /\ click = NoClick

Init == ServerInit /\ ClientInit

\* Click on "Predict Price": the script reruns, builds trip_data and calls
\* requests.post(API_URL, json=trip_data), which has no timeout.
basic_predict ==
    \E w \in BasicForms :
        /\ pc = "idle"
        /\ trip_data' = BasicTripData(w)
        /\ pc' = "posting"
        /\ tab1' = NoDisplay
        /\ click' = [NoClick EXCEPT !.mode = "basic", !.outcome = "pending",
                                    !.posts = 1,
                                    !.stale = route_result.success]
        /\ UNCHANGED <<route_result, svc>>
        /\ UNCHANGED serverVars

Found(loc) == IF loc.found THEN "found" ELSE "notfound"

\* Click on "Calculate Route & Price".  raises is the geocode call that
\* raises (0: none; geopy raises when Nominatim times out or refuses).
\* The basic tab's button is not pressed in this run, so that tab shows no
\* result.
route_predict ==
    \E from_location \in Places, to_location \in Places,
       raises \in 0..2, w \in RouteForms :
        LET from_loc == Geocode(from_location)
            to_loc == Geocode(to_location)
            distance_km == Geodesic(<<from_loc.latitude, from_loc.longitude>>,
                                    <<to_loc.latitude, to_loc.longitude>>)
            c == [NoClick EXCEPT !.mode = "route",
                                 !.stale = route_result.success,
                                 !.from_location = from_location,
                                 !.to_location = to_location, !.w = w]
        IN  /\ pc = "idle"
            /\ tab1' = NoDisplay
            /\ UNCHANGED svc
            /\ UNCHANGED serverVars
            /\ IF raises # 0
               THEN /\ route_result' = RouteException(route_result, GeocoderErrorText)
                    /\ click' = [c EXCEPT
                          !.outcome = "exception",
                          !.from_found = IF raises = 1 THEN "raised"
                                         ELSE Found(from_loc),
                          !.to_found = IF raises = 1 THEN "notcalled"
                                       ELSE "raised"]
                    /\ UNCHANGED <<pc, trip_data>>
               ELSE IF BothFound(from_loc, to_loc)
               THEN /\ trip_data' = RouteTripData(w, distance_km)
                    /\ pc' = "posting"
                    /\ click' = [c EXCEPT
                          !.outcome = "pending", !.posts = 1,
                          !.from_found = Found(from_loc),
                          !.to_found = Found(to_loc),
                          !.distance_km = distance_km]
                    /\ UNCHANGED route_result
               ELSE /\ route_result' =
                          RouteNotFound(from_loc, to_loc, from_location, to_location)
                    /\ click' = [c EXCEPT
                          !.outcome = "geocode_notfound",
                          !.from_found = Found(from_loc),
                          !.to_found = Found(to_loc)]
                    /\ UNCHANGED <<pc, trip_data>>

\* requests.post returns: the service served the request, and the handler
\* that sent it goes on with the response.
post_returns ==
    /\ pc = "posting"
    /\ svc = "up"
    /\ Serve(trip_data)
    /\ UNCHANGED pinned
    /\ IF click.mode = "basic"
       THEN tab1' = BasicShow(resp') /\ UNCHANGED route_result
       ELSE route_result' = RouteStore(resp', click) /\ UNCHANGED tab1
    /\ click' = [click EXCEPT
          !.outcome = IF resp'.status = 200 THEN "ok" ELSE "http_error",
          !.status = resp'.status, !.detail = resp'.detail]
    /\ pc' = "idle"
    /\ trip_data' = <<>>
    /\ UNCHANGED svc

\* post_fails with no except clause matching: the script run dies.
post_fails_uncaught ==
    /\ pc = "posting"
    /\ svc = "down"
    /\ pc' = "crashed"
    /\ click' = [click EXCEPT !.outcome = "conn_error"]
    /\ UNCHANGED <<svc, trip_data, tab1, route_result>>
    /\ UNCHANGED serverVars

\* requests.post raises ConnectionError: nothing listens at API_URL.
post_fails ==
    /\ pc = "posting"
    /\ svc = "down"
    /\ IF click.mode = "basic"
       THEN tab1' = BasicConnectionError /\ UNCHANGED route_result
       ELSE route_result' = RouteException(route_result, ConnectionErrorText) /\ UNCHANGED tab1
    /\ click' = [click EXCEPT !.outcome = "conn_error"]
    /\ pc' = "idle"
    /\ trip_data' = <<>>
    /\ UNCHANGED svc
    /\ UNCHANGED serverVars

\* requests.post raises an exception that is no ConnectionError.
post_raises ==
    /\ pc = "posting"
    /\ svc = "redirect_loop"
    /\ IF click.mode = "basic"
       THEN tab1' = BasicException(TooManyRedirectsText) /\ UNCHANGED route_result
       ELSE route_result' = RouteException(route_result, TooManyRedirectsText) /\ UNCHANGED tab1
    /\ click' = [click EXCEPT !.outcome = "exception"]
    /\ pc' = "idle"
    /\ trip_data' = <<>>
    /\ UNCHANGED svc
    /\ UNCHANGED serverVars

\* The service goes up or down between two clicks.
service_changes ==
    /\ pc = "idle"
    /\ \E s \in SvcStates \ {svc} : svc' = s
    /\ UNCHANGED <<pc, trip_data, tab1, route_result, click>>
    /\ UNCHANGED serverVars

Next == ServePredict \/ ServeRoot

Spec == Init /\ [][Next]_vars

RepeatNext == ServePinned \/ ServePredict \/ ServeRoot

RepeatSpec == Init /\ [][RepeatNext]_vars

ClientNext ==
    \/ basic_predict
    \/ route_predict
    \/ post_returns
    \/ post_fails
    \/ post_raises
    \/ service_changes

ClientSpec == Init /\ [][ClientNext]_vars

\* A transport failure is delivered: requests.post raises once the
\* connection is refused or the redirect limit is passed.  Nothing is
\* assumed of a peer that stays silent, and nothing needs to be assumed of
\* one that answers.
FairClientSpec ==
    /\ Init
    /\ [][ClientNext]_vars
    /\ WF_vars(post_fails)
    /\ WF_vars(post_raises)

(***************************************************************************)
(* Properties.                                                             *)
(***************************************************************************)
IsPredict == req.method = "POST" /\ req.path = "/predict"

\* text has word as a substring.
Contains(text, word) ==
    \E i \in 1..(Len(text) - Len(word) + 1) :
        SubSeq(text, i, i + Len(word) - 1) = word

StartsWith(text, word) ==
    Len(text) >= Len(word) /\ SubSeq(text, 1, Len(word)) = word

\* The constraints of the data model's table: every numerical field > 0,
\* passenger_count <= 10.
Violates(body) ==
    \E f \in FieldSet \ StrFields :
        \/ JsonGet(body, f).n <= 0
        \/ f = "Passenger_Count" /\ JsonGet(body, f).n > 100

\* The categorical fields whose label is outside the vocabulary fitted at
\* load time.
Unseen(body) ==
    {f \in StrFields :
        JsonGet(body, f).s \notin Range(loaded.label_encoders[f].classes_)}

\* The first of them in the order the handler encodes the fields.
FirstUnseen(body) ==
    LET cats == loaded.feature_info.categorical_features
        i == CHOOSE j \in 1..Len(cats) :
                /\ cats[j] \in Unseen(body)
                /\ \A h \in 1..(j - 1) : cats[h] \notin Unseen(body)
    IN  cats[i]

\* The artifact calls of a pipeline that runs to its end.
PipelineSteps ==
    LET cats == loaded.feature_info.categorical_features
    IN  [i \in 1..Len(cats) |-> "encode:" \o cats[i]]
        \o <<"scale", "predict", "round">>

IsPrefix(a, b) == Len(a) <= Len(b) /\ SubSeq(b, 1, Len(a)) = a

\* C1: a POST /predict whose Trip_Distance_km is <= 0, or whose other
\* numerical fields violate their constraints, is answered 422 and no
\* encoder, scaler or model call is made for it.
C1_RejectedBeforePipeline ==
    IsPredict /\ Violates(req.body) =>
        resp.status = 422 /\ steps = <<>> /\ row = NoRow

C1_Witness ==
    /\ IsPredict
    /\ JsonGet(req.body, "Trip_Distance_km").n = 0
    /\ Unseen(req.body) = {}
    /\ resp.status = 422
    /\ steps = <<>>

\* C2 as stated: a request with a label outside the fitted vocabulary gets
\* no 200, and its failure names the field and the value.
C2_FailsNamingFieldAndValue ==
    IsPredict /\ ~Violates(req.body) /\ Unseen(req.body) # {} =>
        /\ resp.status # 200
        /\ \E f \in Unseen(req.body) :
              /\ Contains(resp.detail, f)
              /\ Contains(resp.detail, JsonGet(req.body, f).s)

\* C2 as the code has it: such a request gets the 500 of every pipeline
\* failure, whose detail is "Prediction error: " and the encoder's message,
\* which names the value of the first unfitted label and not its field; the
\* pipeline stops at that encoder, and no 200 and no price is produced.
C2_FailsWith500NamingValue ==
    IsPredict /\ ~Violates(req.body) /\ Unseen(req.body) # {} =>
        LET f == FirstUnseen(req.body)
        IN  /\ resp.status = 500
            /\ resp.keys = {"detail"}
            /\ resp.detail = "Prediction error: y contains previously unseen labels: '"
                             \o JsonGet(req.body, f).s \o "'"
            /\ ~Contains(resp.detail, f)
            /\ steps # <<>>
            /\ steps[Len(steps)] = "encode:" \o f
            /\ IsPrefix(steps, PipelineSteps)
            /\ row = NoRow

C2_Witness ==
    /\ IsPredict
    /\ ~Violates(req.body)
    /\ JsonGet(req.body, "Time_of_Day").s = "Midnight"
    /\ resp.status = 500

\* C3: a request that passes validation ends in exactly one of: every step
\* ran and the response is 200 with a price and currency "SEK"; or a step
\* failed and the response is 500 with detail "Prediction error: " and a
\* message, and then no later step ran and no price is in the response.
C3_AllOrNothing ==
    IsPredict /\ ~Violates(req.body) =>
        \/ /\ resp.status = 200
           /\ resp.keys = {"predicted_price", "currency"}
           /\ resp.currency = "SEK"
           /\ steps = PipelineSteps
           /\ Unseen(req.body) = {}
           /\ loaded.scaler.n_features_in_
                = Len(loaded.feature_info.numerical_features)
           /\ loaded.model.n_features_in_ = Len(Fields)
        \/ /\ resp.status = 500
           /\ resp.keys = {"detail"}
           /\ StartsWith(resp.detail, "Prediction error: ")
           /\ Len(resp.detail) > Len("Prediction error: ")
           /\ IsPrefix(steps, PipelineSteps)
           /\ steps # PipelineSteps
           /\ \/ Unseen(req.body) # {}
              \/ loaded.scaler.n_features_in_
                   # Len(loaded.feature_info.numerical_features)
              \/ loaded.model.n_features_in_ # Len(Fields)

C3_Witness ==
    /\ IsPredict
    /\ ~Violates(req.body)
    /\ resp.status = 500
    /\ steps # <<>>
    /\ steps[Len(steps)] = "scale"

\* The same JSON object with its members in another order.
Reordered(body, order) ==
    [i \in 1..Len(order) |-> [k |-> order[i], v |-> JsonGet(body, order[i])]]

\* C4: the response to a valid record is the same for every order of its
\* members in the JSON body, and the row given to the model has its
\* columns in the one declared order.
C4_KeyOrderIrrelevant ==
    IsPredict /\ ~Violates(req.body) =>
        /\ "predict" \in Range(steps) => row.columns = Fields
        /\ \A o \in KeyOrders :
              PostPredict(model, scaler, label_encoders, feature_info,
                          Reordered(req.body, o)).resp = resp

C4_Witness ==
    /\ IsPredict
    /\ req.body[1].k = "Time_of_Day"
    /\ resp.status = 200
    /\ row.columns = Fields

\* C5: a request is answered as it was answered before, whatever was
\* served in between.
C5_SameResponseAgain ==
    pinned # NoPin /\ req = pinned.req => resp = pinned.resp

C5_Witness ==
    /\ pinned # NoPin
    /\ pinned.others
    /\ req = pinned.req
    /\ resp.status = 200

\* C10: after any sequence of requests the four artifacts are what the
\* load returned.
C10_ArtifactsAsLoaded ==
    [model |-> model, scaler |-> scaler, label_encoders |-> label_encoders,
     feature_info |-> feature_info] = loaded

C10_Witness ==
    /\ IsPredict
    /\ Unseen(req.body) # {}
    /\ "encode:Time_of_Day" \in Range(steps)
    /\ label_encoders = loaded.label_encoders

\* What the tab of the last click shows once its script run is over.
Shown == IF click.mode = "basic" THEN tab1 ELSE RouteDisplay(route_result)

\* The failure line the route handler is to record for locations that did
\* not resolve.
NotFoundText ==
    LET f == "Could not find location: " \o click.from_location
        t == "Could not find location: " \o click.to_location
    IN  IF click.from_found = "notfound" /\ click.to_found = "notfound"
        THEN f \o " | " \o t
        ELSE IF click.from_found = "notfound" THEN f ELSE t

Failed ==
    click.outcome \in {"http_error", "conn_error", "geocode_notfound", "exception"}

\* C7: when the last prediction attempt failed, its tab shows an error and
\* no price; in route mode route_result then is the failure record, also
\* when it held a price before the click.
C7_NoPriceOnFailure ==
    Failed =>
        /\ pc = "idle"
        /\ Shown.kind = "error"
        /\ click.mode = "route" => route_result.set /\ ~route_result.success

C7_Witness ==
    /\ Failed
    /\ click.mode = "route"
    /\ click.stale
    /\ Shown.kind = "error"

\* C8 as stated: a 500 from the service is shown with the service's error
\* text; an unreachable service is shown as a connection failure.
C8_ShowsServerText ==
    /\ click.outcome = "http_error" /\ click.status = 500
       => Shown.kind = "error" /\ Contains(Shown.text, click.detail)
    /\ click.outcome = "conn_error" => Shown.kind = "error"

\* C8 as the code has it: a failure response is shown by its status code
\* alone ("Error: <status>" in the basic tab, "Prediction error: <status>"
\* in the route tab); an unreachable service is shown as "Cannot connect to
\* backend API" in the basic tab and by the exception's message in the
\* route tab.
C8_ShowsStatusCode ==
    /\ click.outcome = "http_error" =>
          /\ click.status \in {422, 500}
          /\ Shown = [kind |-> "error",
                      text |-> IF click.mode = "basic"
                               THEN "Error: " \o ToString(click.status)
                               ELSE "[x] Prediction error: "
                                    \o ToString(click.status)]
    /\ click.outcome = "conn_error" =>
          Shown = [kind |-> "error",
                   text |-> IF click.mode = "basic"
                            THEN "Cannot connect to backend API"
                            ELSE "[x] " \o ConnectionErrorText]

C8_Witness ==
    /\ click.outcome = "http_error"
    /\ click.status = 500
    /\ click.mode = "basic"
    /\ tab1.text = "Error: 500"

ConnectionFailureReported ==
    /\ pc = "idle"
    /\ click.outcome = "conn_error"
    /\ Shown.kind = "error"
    /\ Shown.text \in {"Cannot connect to backend API", "[x] " \o ConnectionErrorText}

\* C9 as stated: an attempt that meets a service that is unreachable or
\* never answers ends with a connection failure reported.
C9_AlwaysReports ==
    (pc = "posting" /\ svc \in {"down", "silent"}) ~> ConnectionFailureReported

\* C9 as the code has it: an attempt that meets an unreachable service (the
\* connection fails) ends with a connection failure reported.  (With a
\* service that never answers the run stays in requests.post, which is
\* called without a timeout.)
C9_ReportsWhenUnreachable ==
    (pc = "posting" /\ svc = "down") ~> ConnectionFailureReported

C9_Witness ==
    /\ ConnectionFailureReported
    /\ click.mode = "route"
    /\ svc = "down"

====
